---- MODULE Spec2Model ----
(***************************************************************************)
(* The OCPP client of station-emulator (src/src/client.rs): the ws Handler *)
(* `Client`, its three callbacks on_open / on_message / on_timeout, and    *)
(* the storage it drives (pending messages, delivery queue, last-sent      *)
(* marker, transactions, connector statuses).                              *)
(*                                                                         *)
(* One reactor turn (one callback run to completion) is one action.        *)
(* JSON arrays are tuples: the frame [2, id, action, payload] is           *)
(* <<2, id, action, payload>>, so the code's parsed_msg[k] is frame[k+1].  *)
(* An Option is a sequence: None is <<>>, Some(v) is <<v>>.                *)
(***************************************************************************)
EXTENDS Integers, Sequences, FiniteSets, Bags, TLC

\* ---------------------------------------------------------------- bounds
\* Uuid::new_v4() is modelled as a counter: at most MaxUuid ids per session.
MaxUuid == 8
\* Readings of the wall clock (Utc::now().timestamp(), seconds) stay within
\* 0..MaxTime.
MaxTime == 12
\* EVSEs the storage holds, each with one connector (index 0).
NumEvse == 2
\* Accepted BootNotification responses the CSMS sends in one session.
MaxAccepts == 2
\* Heartbeat timeouts that fire in one session.
MaxBeats == 1

\* ------------------------------------------------------- program constants
HEARTBEAT == 1
QUEUE_FETCH == 2
CALL == 2
CALLRESULT == 3
CALLERROR == 4
QUEUE_FETCH_INTERVAL == 50
QUEUE_MESSAGE_EXPIRATION == 10

VARIABLES
    session,            \* "init" | "open" | "closed" | "panicked"
    queue,              \* storage: the delivery queue, a sequence of frames
    messages,           \* storage: message id -> frame (set_message)
    lastSent,           \* storage: [id: Option, timestamp: Option]
    transactions,       \* storage: transaction id -> dumped request payload
    connectors,         \* storage: evse index -> status of its connector 0
    HEARTBEAT_INTERVAL, \* the static mut, milliseconds
    timeouts,           \* bag of armed [token, delay] timeouts
    uuid,               \* number of ids Uuid::new_v4() has handed out
    out                 \* the frames self.out.send() took in the last turn

vars == <<session, queue, messages, lastSent, transactions, connectors,
          HEARTBEAT_INTERVAL, timeouts, uuid, out>>

storageVars == <<queue, messages, lastSent, transactions, connectors>>

\* ------------------------------------------------------------- Option
None == <<>>
Some(v) == <<v>>

\* ------------------------------------------------------------- JSON
\* A JSON value whose type the code tests is tagged: a number, a string or
\* null. as_number / as_u8 are json-rust's accessors.
Num(n) == [num |-> n]
Str(s) == [str |-> s]
Null == [null |-> TRUE]

as_number(v) == IF "num" \in DOMAIN v THEN Some(v.num) ELSE None

as_u8(v) == IF "num" \in DOMAIN v /\ v.num \in 0 .. 255 THEN Some(v.num) ELSE None

\* parsed_msg[k] of a JSON array (k from 0): Null past its end.
Index(frame, k) == IF k + 1 <= Len(frame) THEN frame[k + 1] ELSE Null

\* payload["key"]: Null when the payload is no object or has no such member.
Member(payload, key) ==
    IF key \in DOMAIN payload THEN payload[key] ELSE Null

\* The text of a frame that is not JSON.
NotJson == <<[garbage |-> TRUE]>>

\* ------------------------------------------------------------- storage
\* storage::get_message: the stored frame, or the empty string (here <<>>).
get_message(id) == IF id \in DOMAIN messages THEN messages[id] ELSE <<>>

\* storage::set_message as a map update.
set_message(m, id, frame) ==
    [k \in DOMAIN m \cup {id} |-> IF k = id THEN frame ELSE m[k]]

\* storage::get_transaction: the stored payload, or the empty string (<<>>).
get_transaction(id) ==
    IF id \in DOMAIN transactions THEN transactions[id] ELSE <<>>

set_transaction(t, id, payload) ==
    [k \in DOMAIN t \cup {id} |-> IF k = id THEN payload ELSE t[k]]

delete_transaction(t, id) == [k \in DOMAIN t \ {id} |-> t[k]]

\* storage::get_connector(evse, 0).status
get_connector(evse) == connectors[evse]

set_connector_status(c, evse, status) == [c EXCEPT ![evse] = status]

\* A queue that takes a new frame at its head.
queue_add_front(q, frame) == <<frame>> \o q

\* storage::queue_add appends; storage::queue_pop takes the head.
queue_add(q, frame) == Append(q, frame)

\* ------------------------------------------------------------- builders
\* requests::*: one Call frame per message shape.
boot_notification(id) ==
    <<CALL, id, "BootNotification", [reason |-> "PowerUp"]>>

heartbeat(id) == <<CALL, id, "Heartbeat", [empty |-> TRUE]>>

status_notification(id, evseId, connectorId, status) ==
    <<CALL, id, "StatusNotification",
      [evseId |-> evseId, connectorId |-> connectorId,
       connectorStatus |-> status]>>

transaction_event(id, txId, eventType, trigger, chargingState, remoteStartId, reason) ==
    <<CALL, id, "TransactionEvent",
      [eventType |-> eventType, triggerReason |-> trigger,
       transactionId |-> txId, chargingState |-> chargingState,
       remoteStartId |-> remoteStartId, stoppedReason |-> reason]>>

\* responses::*: one CallResult frame per reply shape.
request_start_transaction(id, remoteStartId, status) ==
    <<CALLRESULT, id, [remoteStartId |-> remoteStartId, status |-> status]>>

request_stop_transaction(id, status) ==
    <<CALLRESULT, id, [status |-> status]>>

set_variables(id, variables) ==
    <<CALLRESULT, id, [setVariableResult |-> variables]>>

get_variables(id, variables) ==
    <<CALLRESULT, id, [getVariableResult |-> variables]>>

\* ------------------------------------------------------------- timeouts
\* self.out.timeout(delay, token): one more armed timeout.
Arm(bag, delay, token) ==
    bag (+) SetToBag({[token |-> token, delay |-> delay]})

\* An event loop that keeps a timeout armed after delivering it.
Disarm_keep(bag, t) == bag

\* The event loop hands an armed timeout to on_timeout and forgets it.
Disarm(bag, t) == bag (-) SetToBag({t})

Armed(token) == {t \in BagToSet(timeouts) : t.token = token}

\* The end of the program: the event loop stops (out.shutdown()) or the
\* process panics, and the statics of the storage go with the process.
Ended(how) ==
    /\ session' = how
    /\ queue' = <<>>
    /\ messages' = <<>>
    /\ lastSent' = [id |-> None, timestamp |-> None]
    /\ transactions' = <<>>
    /\ connectors' = connectors
    /\ HEARTBEAT_INTERVAL' = 0
    /\ timeouts' = EmptyBag
    /\ uuid' = 0
    /\ out' = <<>>

\* A callback that returns Err: ws hands the error to on_error, which shuts
\* the connection down (client.rs 384-387).
Failed == Ended("closed")

\* A panic!: the process is gone.
Panicked == Ended("panicked")

Init ==
    /\ session = "init"
    /\ queue = <<>>
    /\ messages = <<>>
    /\ lastSent = [id |-> None, timestamp |-> None]
    /\ transactions = <<>>
    /\ connectors \in [0 .. NumEvse - 1 -> {"Available", "Occupied"}]
    /\ HEARTBEAT_INTERVAL = 0
    /\ timeouts = EmptyBag
    /\ uuid = 0
    /\ out = <<>>

\* on_open: arm the queue worker, build the BootNotification, store it as
\* pending and put it on the queue. ok: the connection takes the commands
\* of this turn (out.timeout / out.send return Ok).
on_open(ok) ==
    /\ session = "init"
    /\ IF ~ok
       THEN Failed
       ELSE LET msg_id == uuid + 1
                msg == boot_notification(msg_id)
            IN  /\ session' = "open"
                /\ out' = <<>>
                /\ timeouts' = Arm(timeouts, QUEUE_FETCH_INTERVAL, QUEUE_FETCH)
                /\ uuid' = uuid + 1
                /\ messages' = set_message(messages, msg_id, msg)
                /\ queue' = queue_add(queue, msg)
                /\ UNCHANGED <<lastSent, transactions, connectors,
                               HEARTBEAT_INTERVAL>>

\* ------------------------------------------------------- on_timeout
\* client.rs 417: the last-sent marker holds an id.
last_sent_msg_exist == lastSent.id # None

\* The expiry check without the window.
last_sent_msg_expired_no_window(current_timestamp) ==
    IF lastSent.timestamp # None
    THEN lastSent.timestamp[1] < current_timestamp
    ELSE TRUE

\* The expiry check that never fires once a message has been sent.
last_sent_msg_expired_never(current_timestamp) == lastSent.timestamp = None

\* client.rs 419-422: the last sent message is older than the expiry window.
last_sent_msg_expired(current_timestamp) ==
    IF lastSent.timestamp # None
    THEN lastSent.timestamp[1] + QUEUE_MESSAGE_EXPIRATION < current_timestamp
    ELSE TRUE

\* The gate that opens for the first frame only.
fetch_due_first_only(current_timestamp) ==
    /\ Len(queue) > 0
    /\ ~last_sent_msg_exist

\* client.rs 424: the condition under which a tick takes the head of the queue.
fetch_due(current_timestamp) ==
    /\ Len(queue) > 0
    /\ (~last_sent_msg_exist \/ last_sent_msg_expired(current_timestamp))

\* The marker taking the frame's type id (parsed_msg[0]) for its id.
sent_marker_wrong_index(msg, current_timestamp) ==
    [id |-> Some(msg[1]), timestamp |-> Some(current_timestamp)]

\* client.rs 433, 440: the marker a tick leaves for the frame it sent.
sent_marker(msg, current_timestamp) ==
    [id |-> Some(msg[2]), timestamp |-> Some(current_timestamp)]

\* on_timeout(QUEUE_FETCH) with the clock reading current_timestamp.
on_timeout_queue_fetch(current_timestamp, ok) ==
    /\ session = "open"
    /\ \E tm \in Armed(QUEUE_FETCH) :
        IF ~ok
        THEN Failed
        ELSE /\ IF fetch_due(current_timestamp)
                THEN LET msg == Head(queue)
                     IN  /\ queue' = Tail(queue)
                         /\ out' = <<msg>>
                         /\ lastSent' = sent_marker(msg, current_timestamp)
                ELSE /\ out' = <<>>
                     /\ UNCHANGED <<queue, lastSent>>
             /\ timeouts' = Arm(Disarm(timeouts, tm),
                                QUEUE_FETCH_INTERVAL, QUEUE_FETCH)
             /\ UNCHANGED <<session, messages, transactions, connectors,
                            HEARTBEAT_INTERVAL, uuid>>

\* Heartbeat frames built so far (each firing builds one).
NumBeats ==
    Cardinality({k \in DOMAIN messages : messages[k][3] = "Heartbeat"})

\* on_timeout(HEARTBEAT): build a Heartbeat, store it as pending, enqueue it,
\* arm the next one with the interval then current.
on_timeout_heartbeat(ok) ==
    /\ session = "open"
    /\ uuid + 1 <= MaxUuid
    /\ NumBeats < MaxBeats
    /\ \E tm \in Armed(HEARTBEAT) :
        IF ~ok
        THEN Failed
        ELSE LET msg_id == uuid + 1
                 msg == heartbeat(msg_id)
             IN  /\ uuid' = uuid + 1
                 /\ messages' = set_message(messages, msg_id, msg)
                 /\ queue' = queue_add(queue, msg)
                 /\ out' = <<>>
                 /\ timeouts' = Arm(Disarm(timeouts, tm),
                                    HEARTBEAT_INTERVAL, HEARTBEAT)
                 /\ UNCHANGED <<session, lastSent, transactions, connectors,
                                HEARTBEAT_INTERVAL>>

\* ------------------------------------------------------- on_message
\* JsonValue::to_string of a member the code reads as text.
to_string(v) == IF "str" \in DOMAIN v THEN v.str ELSE "null"

\* A JSON array is tagged too: len() of anything else is 0.
Arr(items) == [arr |-> items]

array_len(v) == IF "arr" \in DOMAIN v THEN Len(v.arr) ELSE 0

\* A turn that changes nothing but arms a heartbeat timeout.
Ignore_but_arm ==
    /\ out' = <<>>
    /\ timeouts' = Arm(timeouts, HEARTBEAT_INTERVAL, HEARTBEAT)
    /\ UNCHANGED <<session, storageVars, HEARTBEAT_INTERVAL, uuid>>

\* A turn that neither sends nor changes anything (a println! at most).
Ignore ==
    /\ out' = <<>>
    /\ UNCHANGED <<session, storageVars, HEARTBEAT_INTERVAL, timeouts, uuid>>

\* A reply that also frees connector 0.
ReplyOnly_and_free(reply, ok) ==
    IF ~ok
    THEN Failed
    ELSE /\ out' = <<reply>>
         /\ connectors' = set_connector_status(connectors, 0, "Available")
         /\ UNCHANGED <<session, queue, messages, lastSent, transactions,
                        HEARTBEAT_INTERVAL, timeouts, uuid>>

\* A reply that goes to the tail of the queue instead of the connection.
ReplyOnly_queued(reply, ok) ==
    IF ~ok
    THEN Failed
    ELSE /\ out' = <<>>
         /\ queue' = queue_add(queue, reply)
         /\ UNCHANGED <<session, messages, lastSent, transactions, connectors,
                        HEARTBEAT_INTERVAL, timeouts, uuid>>

\* self.out.send(reply)? as the only effect of a turn.
ReplyOnly(reply, ok) ==
    IF ~ok
    THEN Failed
    ELSE /\ out' = <<reply>>
         /\ UNCHANGED <<session, storageVars, HEARTBEAT_INTERVAL, timeouts, uuid>>

\* The classification GetVariables uses, taken for SetVariables.
set_variable_status_as_get(component_name, variable_name) ==
    IF component_name = "AuthCtrlr"
    THEN IF variable_name = "AuthorizeRemoteStart"
         THEN "Accepted"
         ELSE "UnknownVariable"
    ELSE "UnknownComponent"

\* client.rs 136-144: the attributeStatus SetVariables gives an item.
set_variable_status(component_name, variable_name) ==
    IF component_name = "AuthCtrlr"
    THEN IF variable_name = "AuthorizeRemoteStart"
         THEN "Rejected"
         ELSE "UnknownVariable"
    ELSE "UnknownComponent"

\* client.rs 120-151
on_set_variables(msg_id, payload, ok) ==
    LET set_variable_data_array == Member(payload, "setVariableData")
        variables ==
            [i \in 1 .. array_len(set_variable_data_array) |->
                LET set_variable_data == set_variable_data_array.arr[i]
                    component_name ==
                        to_string(Member(set_variable_data, "component"))
                    variable_name ==
                        to_string(Member(Member(set_variable_data, "variable"),
                                         "name"))
                IN  [component |-> component_name,
                     variable |-> [name |-> variable_name],
                     attributeStatus |->
                        set_variable_status(component_name, variable_name)]]
    IN  ReplyOnly(set_variables(msg_id, variables), ok)

\* components::get_variable: (attributeStatus, attributeValue).
get_variable(component_name, variable_name) ==
    IF component_name = "AuthCtrlr"
    THEN IF variable_name = "AuthorizeRemoteStart"
         THEN <<"Accepted", Some("false")>>
         ELSE <<"UnknownVariable", None>>
    ELSE <<"UnknownComponent", None>>

\* client.rs 156-185
on_get_variables(msg_id, payload, ok) ==
    LET get_variable_data_array == Member(payload, "getVariableData")
        variables ==
            [i \in 1 .. array_len(get_variable_data_array) |->
                LET get_variable_data == get_variable_data_array.arr[i]
                    component_name ==
                        to_string(Member(get_variable_data, "component"))
                    variable_name ==
                        to_string(Member(Member(get_variable_data, "variable"),
                                         "name"))
                    found == get_variable(component_name, variable_name)
                IN  [attributeStatus |-> found[1],
                     component |-> component_name,
                     variable |-> [name |-> variable_name],
                     attributeValue |-> found[2]]]
    IN  ReplyOnly(get_variables(msg_id, variables), ok)

\* The reply that skips the look at the connector.
start_response_status_unchecked(connector_status) == "Accepted"

\* client.rs 205-209: the reply to a RequestStartTransaction.
start_response_status(connector_status) ==
    IF connector_status # "Available" THEN "Rejected" ELSE "Accepted"

\* client.rs 231: the connector an accepted start marks Occupied.
started_connector(evse_id) == 0

\* The frames of an accepted start with the StatusNotification built last.
start_enqueued_status_last(transaction_id, remote_start_id) ==
    <<transaction_event(transaction_id + 1, transaction_id, "Started",
                        "RemoteStart", None, Some(remote_start_id), None),
      transaction_event(transaction_id + 2, transaction_id, "Updated",
                        "CablePluggedIn", Some("Charging"), None, None),
      status_notification(transaction_id + 3, 1, 1, "Occupied")>>

\* client.rs 221-252: what an accepted start stores and enqueues, in the
\* order of the code. The ids are those of lines 194, 224, 235 and 247.
start_enqueued(transaction_id, remote_start_id) ==
    <<status_notification(transaction_id + 1, 1, 1, "Occupied"),
      transaction_event(transaction_id + 2, transaction_id, "Started",
                        "RemoteStart", None, Some(remote_start_id), None),
      transaction_event(transaction_id + 3, transaction_id, "Updated",
                        "CablePluggedIn", Some("Charging"), None, None)>>

\* set_message for each frame of a sequence.
RECURSIVE set_messages(_, _)
set_messages(m, frames) ==
    IF frames = <<>>
    THEN m
    ELSE set_messages(set_message(m, Head(frames)[2], Head(frames)), Tail(frames))

\* client.rs 188-252
on_request_start_transaction(msg_id, payload, ok) ==
    LET remote_start_id == as_number(Member(payload, "remoteStartId"))
        evse_id == as_number(Member(payload, "evseId"))
    IN  IF remote_start_id = None \/ evse_id = None
        THEN Panicked
        ELSE LET transaction_id == uuid + 1
                 connector_status == get_connector(evse_id[1] - 1)
                 response_status == start_response_status(connector_status)
                 reply == request_start_transaction(msg_id, remote_start_id[1],
                                                    response_status)
                 frames == start_enqueued(transaction_id, remote_start_id[1])
             IN  IF ~ok \/ response_status = "Rejected"
                 THEN ReplyOnly(reply, ok)
                 ELSE /\ uuid + 4 <= MaxUuid
                      /\ out' = <<reply>>
                      /\ uuid' = uuid + 4
                      /\ messages' = set_messages(messages, frames)
                      /\ queue' = queue \o frames
                      /\ connectors' =
                            set_connector_status(connectors,
                                                 started_connector(evse_id[1]),
                                                 "Occupied")
                      /\ transactions' =
                            set_transaction(transactions, transaction_id, payload)
                      /\ UNCHANGED <<session, lastSent, HEARTBEAT_INTERVAL,
                                     timeouts>>

\* The reply that skips the look at the transaction.
stop_response_status_unchecked(transaction) == "Accepted"

\* client.rs 259-262: the reply to a RequestStopTransaction.
stop_response_status(transaction) ==
    IF transaction = <<>> THEN "Rejected" ELSE "Accepted"

\* The frames of an accepted stop with the Ended event built first.
stop_enqueued_ended_first(first_id, transaction_id) ==
    <<transaction_event(first_id, transaction_id, "Ended", "RemoteStop",
                        None, None, Some("Remote")),
      transaction_event(first_id + 1, transaction_id, "Updated", "RemoteStop",
                        None, None, None),
      status_notification(first_id + 2, 1, 1, "Available")>>

\* client.rs 274-303: what an accepted stop enqueues, in the order of the
\* code. The ids are those of lines 276, 285 and 298.
stop_enqueued(first_id, transaction_id) ==
    <<transaction_event(first_id, transaction_id, "Updated", "RemoteStop",
                        None, None, None),
      transaction_event(first_id + 1, transaction_id, "Ended", "RemoteStop",
                        None, None, Some("Remote")),
      status_notification(first_id + 2, 1, 1, "Available")>>

\* client.rs 255-305
on_request_stop_transaction(msg_id, payload, ok) ==
    LET transaction_id == payload.transactionId
        transaction == get_transaction(transaction_id)
        response_status == stop_response_status(transaction)
        reply == request_stop_transaction(msg_id, response_status)
        frames == stop_enqueued(uuid + 1, transaction_id)
    IN  IF ~ok \/ response_status = "Rejected"
        THEN ReplyOnly(reply, ok)
        ELSE /\ uuid + 3 <= MaxUuid
             /\ out' = <<reply>>
             /\ uuid' = uuid + 3
             /\ messages' = set_messages(messages, frames)
             /\ queue' = queue \o frames
             /\ transactions' = delete_transaction(transactions, transaction_id)
             /\ connectors' = set_connector_status(connectors, 0, "Available")
             /\ UNCHANGED <<session, lastSent, HEARTBEAT_INTERVAL, timeouts>>

\* client.rs 109-309: a Call, dispatched on its action.
on_call(frame, msg_id, ok) ==
    LET action == to_string(Index(frame, 2))
        payload == Index(frame, 3)
    IN  CASE action = "SetVariables" -> on_set_variables(msg_id, payload, ok)
          [] action = "GetVariables" -> on_get_variables(msg_id, payload, ok)
          [] action = "RequestStartTransaction" ->
                on_request_start_transaction(msg_id, payload, ok)
          [] action = "RequestStopTransaction" ->
                on_request_stop_transaction(msg_id, payload, ok)
          [] OTHER -> Ignore

\* BootNotification responses accepted so far: each enqueued a
\* StatusNotification(Available), as each accepted stop (an Ended event) did.
NumAccepts ==
    Cardinality({k \in DOMAIN messages :
                    /\ messages[k][3] = "StatusNotification"
                    /\ messages[k][4].connectorStatus = "Available"})
    - Cardinality({k \in DOMAIN messages :
                    /\ messages[k][3] = "TransactionEvent"
                    /\ messages[k][4].eventType = "Ended"})

\* client.rs 350: seconds to the milliseconds of the timer.
interval_millis(seconds) == seconds * 1000

\* client.rs 331-356: the response to the BootNotification.
on_boot_notification_response(payload, ok) ==
    IF to_string(Member(payload, "status")) = "Accepted"
    THEN LET status_notification_msg_id == uuid + 1
             status_notification_msg ==
                status_notification(status_notification_msg_id, 1, 1, "Available")
             interval == as_number(Member(payload, "interval"))
         IN  /\ uuid + 1 <= MaxUuid
             /\ NumAccepts < MaxAccepts
             /\ IF interval = None
                THEN Panicked
                ELSE IF ~ok
                THEN Failed
                ELSE /\ uuid' = uuid + 1
                     /\ messages' = set_message(messages,
                                                status_notification_msg_id,
                                                status_notification_msg)
                     /\ queue' = queue_add(queue, status_notification_msg)
                     /\ connectors' = set_connector_status(connectors, 0,
                                                           "Available")
                     /\ HEARTBEAT_INTERVAL' = interval_millis(interval[1])
                     /\ timeouts' = Arm(timeouts, HEARTBEAT_INTERVAL', HEARTBEAT)
                     /\ out' = <<>>
                     /\ UNCHANGED <<session, lastSent, transactions>>
    ELSE Ignore

\* A CallResult taken for the BootNotification's without the look into the
\* stored Calls.
on_call_result_uncorrelated(frame, msg_id, ok) ==
    on_boot_notification_response(Index(frame, 2), ok)

\* client.rs 310-360: a CallResult, correlated by id with a stored Call.
on_call_result(frame, msg_id, ok) ==
    LET payload == Index(frame, 2)
        msg_from_map == get_message(msg_id)
    IN  IF msg_from_map = <<>>
        THEN Ignore
        ELSE LET msg_from_map_action == msg_from_map[3]
             IN  IF msg_from_map_action = "BootNotification"
                 THEN on_boot_notification_response(payload, ok)
                 ELSE Ignore

\* on_message: parse, read the type id and the message id, dispatch.
on_message(frame, ok) ==
    /\ session = "open"
    /\ IF frame = NotJson \/ as_u8(Index(frame, 0)) = None
       THEN Panicked
       ELSE LET msg_type_id == as_u8(Index(frame, 0))[1]
                msg_id == Index(frame, 1)
            IN  CASE msg_type_id = CALL -> on_call(frame, msg_id, ok)
                  [] msg_type_id = CALLRESULT -> on_call_result(frame, msg_id, ok)
                  [] msg_type_id = CALLERROR -> Ignore
                  [] OTHER -> Ignore

\* on_close / on_error: the peer closed, or the transport failed.
on_close ==
    /\ session = "open"
    /\ Ended("closed")

\* ------------------------------------------------------- environment
\* The clock readings a tick may see: the seconds at and next to each
\* multiple of the first second past the expiry window (0, 1, 11, 12, ...), so
\* that two readings lie 0, 1, 10, 11 or 12 seconds apart.
Times == {t \in 0 .. MaxTime : t % (QUEUE_MESSAGE_EXPIRATION + 1) <= 1}

\* The id the CSMS gives its own Calls; the station's ids count from 1.
CsmsId == 0

RemoteStartIds == {7}

Item(c, v) == [component |-> Str(c), variable |-> [name |-> Str(v)]]

\* The empty request, and one request with an item of each of the capability
\* table's three classes and an item that names no variable.
ItemLists ==
    {<<>>,
     <<Item("Other", "AuthorizeRemoteStart"), Item("AuthCtrlr", "Unknown"),
       Item("AuthCtrlr", "AuthorizeRemoteStart"),
       [component |-> Str("AuthCtrlr")]>>}

SetVariablesCalls ==
    {<<Num(CALL), CsmsId, Str("SetVariables"), [setVariableData |-> Arr(l)]>> :
        l \in ItemLists}

GetVariablesCalls ==
    {<<Num(CALL), CsmsId, Str("GetVariables"), [getVariableData |-> Arr(l)]>> :
        l \in ItemLists}

StartPayloads ==
    {[remoteStartId |-> Num(r), evseId |-> Num(e)] :
        r \in RemoteStartIds, e \in 1 .. NumEvse}

\* Start requests that lack a mandatory member, or the payload altogether.
BrokenStartCalls ==
    {<<Num(CALL), CsmsId, Str("RequestStartTransaction"), p>> :
        p \in {[evseId |-> Num(1)], [remoteStartId |-> Num(7)]}}
    \cup {<<Num(CALL), CsmsId, Str("RequestStartTransaction")>>}

StartCalls ==
    {<<Num(CALL), CsmsId, Str("RequestStartTransaction"), p>> : p \in StartPayloads}

\* Transaction ids the station has announced, and one it never has.
AnnouncedTransactions ==
    {messages[k][4].transactionId :
        k \in {i \in DOMAIN messages : messages[i][3] = "TransactionEvent"}}

StopCalls ==
    {<<Num(CALL), CsmsId, Str("RequestStopTransaction"), [transactionId |-> t]>> :
        t \in AnnouncedTransactions \cup {CsmsId}}

OtherCalls ==
    {<<Num(CALL), CsmsId, Str("Reset"), [type |-> "Immediate"]>>,
     <<Num(CALL), CsmsId>>}

\* Heartbeat intervals, in seconds, a BootNotification response may carry.
Intervals == {1, 2}

BootPayloads ==
    {[status |-> Str("Accepted"), interval |-> Num(n)] : n \in Intervals}
    \cup {[status |-> Str("Rejected"), interval |-> Num(1)]}

\* Ids a response may carry: that of the BootNotification, that of the
\* newest stored Call, and one the station never issued.
ResponseIds ==
    {k \in DOMAIN messages : messages[k][3] = "BootNotification" \/ k = uuid}
    \cup {CsmsId}

CallResults ==
    {<<Num(CALLRESULT), id, p>> : id \in ResponseIds, p \in BootPayloads}

\* An accepted BootNotification response without its interval.
BrokenCallResults ==
    {<<Num(CALLRESULT), id, [status |-> Str("Accepted")]>> : id \in ResponseIds}

CallErrors ==
    {<<Num(CALLERROR), id, Str("InternalError"), Str(""), Null>> :
        id \in ResponseIds}

\* Frames whose type id is no Call, CallResult or CallError.
OtherFrames == {<<Num(9), CsmsId>>}

\* Frames json::parse or as_u8 refuse.
MalformedFrames == {NotJson, <<Str("2"), CsmsId>>, <<Num(300), CsmsId>>}

Next ==
    \/ \E ok \in BOOLEAN : on_open(ok)
    \/ \E t \in Times, ok \in BOOLEAN : on_timeout_queue_fetch(t, ok)
    \/ \E ok \in BOOLEAN : on_timeout_heartbeat(ok)
    \/ \E f \in SetVariablesCalls, ok \in BOOLEAN : on_message(f, ok)
    \/ \E f \in GetVariablesCalls, ok \in BOOLEAN : on_message(f, ok)
    \/ \E f \in StartCalls, ok \in BOOLEAN : on_message(f, ok)
    \/ \E f \in BrokenStartCalls : on_message(f, TRUE)
    \/ \E f \in StopCalls, ok \in BOOLEAN : on_message(f, ok)
    \/ \E f \in OtherCalls : on_message(f, TRUE)
    \/ \E f \in CallResults, ok \in BOOLEAN : on_message(f, ok)
    \/ \E f \in BrokenCallResults : on_message(f, TRUE)
    \/ \E f \in CallErrors : on_message(f, TRUE)
    \/ \E f \in OtherFrames : on_message(f, TRUE)
    \/ \E f \in MalformedFrames : on_message(f, TRUE)
    \/ on_close

Spec == Init /\ [][Next]_vars

\* ------------------------------------------------------- advancing time
\* The runs in which the clock advances and the sends succeed: a tick reads
\* the clock either within the window of the last transmission or at the
\* first second past it.
LiveReadings ==
    IF lastSent.timestamp = None
    THEN {0}
    ELSE {lastSent.timestamp[1],
          lastSent.timestamp[1] + QUEUE_MESSAGE_EXPIRATION + 1}

\* A tick of the queue-fetch timer in such a run.
Tick == \E t \in LiveReadings : on_timeout_queue_fetch(t, TRUE)

\* A tick that finds the gate open.
DueTick ==
    \E t \in LiveReadings : fetch_due(t) /\ on_timeout_queue_fetch(t, TRUE)

LiveNext ==
    \/ on_open(TRUE)
    \/ Tick
    \/ on_timeout_heartbeat(TRUE)
    \/ \E f \in StartCalls : on_message(f, TRUE)
    \/ \E f \in StopCalls : on_message(f, TRUE)
    \/ \E f \in CallResults : on_message(f, TRUE)
    \/ \E f \in CallErrors : on_message(f, TRUE)
    \/ on_close

\* The queue-fetch timer re-arms itself every 50 ms and the clock advances:
\* a tick that would find the gate open cannot be put off for ever.
LiveSpec ==
    /\ Init
    /\ [][LiveNext]_vars
    /\ WF_vars(DueTick)

\* ------------------------------------------------------------- claims
\* In the claims below a turn is named by its action with ok = TRUE: the
\* connection took the frames and timeouts of the turn. A turn the connection
\* refuses is the transport error that ends the session.

\* Seconds between the last transmission from the queue and the reading t.
Elapsed(t) == t - lastSent.timestamp[1]

\* C1: with N >= 1 queued messages and no LastSent record, one queue-fetch
\* tick transmits exactly the head of the queue, leaves the queue without its
\* head, and sets LastSent to the id of that message and the time of the tick.
C1_FirstSend ==
    [][\A t \in Times :
        (/\ on_timeout_queue_fetch(t, TRUE)
         /\ Len(queue) >= 1
         /\ lastSent.id = None /\ lastSent.timestamp = None)
        => (/\ out' = <<Head(queue)>>
            /\ queue' = Tail(queue)
            /\ Len(queue') = Len(queue) - 1
            /\ lastSent' = [id |-> Some(Head(queue)[2]), timestamp |-> Some(t)])
      ]_vars

\* C1 witness: the first tick has sent the BootNotification and left LastSent
\* on it, with another message still queued behind it.
C1_Witness ==
    /\ session = "open"
    /\ out = <<boot_notification(1)>>
    /\ lastSent.id = Some(1)
    /\ Len(queue) >= 1
    /\ \A i \in 1 .. Len(queue) : queue[i][2] # 1

\* C2: a tick while a LastSent record exists and less than the expiry window
\* has passed since its timestamp transmits nothing and leaves the queue and
\* LastSent unchanged; so any tick that transmits a queued message does so at
\* least one expiry window after the transmission before it.
C2_OneInFlight ==
    [][\A t \in Times :
        (on_timeout_queue_fetch(t, TRUE) /\ lastSent.id # None)
        => (/\ Elapsed(t) < QUEUE_MESSAGE_EXPIRATION
                => (out' = <<>> /\ UNCHANGED <<queue, lastSent>>)
            /\ out' # <<>> => Elapsed(t) >= QUEUE_MESSAGE_EXPIRATION)
      ]_vars

\* C2 witness: a message is in flight, more are queued behind it, and the
\* last turn sent nothing.
C2_Witness ==
    /\ session = "open"
    /\ lastSent.id # None
    /\ Len(queue) >= 2
    /\ out = <<>>

\* C3 as claimed: with a non-empty queue and a LastSent record, a tick at
\* now - LastSent.timestamp >= 10 s, exactly 10 s included, transmits the head
\* of the queue and moves LastSent to it.
C3_GateInclusive ==
    [][\A t \in Times :
        (/\ on_timeout_queue_fetch(t, TRUE)
         /\ Len(queue) >= 1
         /\ lastSent.id # None
         /\ Elapsed(t) >= QUEUE_MESSAGE_EXPIRATION)
        => (/\ out' = <<Head(queue)>>
            /\ lastSent' = [id |-> Some(Head(queue)[2]), timestamp |-> Some(t)])
      ]_vars

\* C3 as amended: the gate opens strictly after the expiry window. A tick at
\* now - LastSent.timestamp > 10 s transmits the head of the queue and moves
\* LastSent to it; a tick at exactly 10 s transmits nothing.
C3_GateStrict ==
    [][\A t \in Times :
        (/\ on_timeout_queue_fetch(t, TRUE)
         /\ Len(queue) >= 1
         /\ lastSent.id # None)
        => (/\ Elapsed(t) > QUEUE_MESSAGE_EXPIRATION
                => (/\ out' = <<Head(queue)>>
                    /\ queue' = Tail(queue)
                    /\ lastSent' = [id |-> Some(Head(queue)[2]),
                                    timestamp |-> Some(t)])
            /\ Elapsed(t) = QUEUE_MESSAGE_EXPIRATION
                => (out' = <<>> /\ UNCHANGED <<queue, lastSent>>))
      ]_vars

\* C3 witness: a second message has left the queue, more than one expiry
\* window after the BootNotification.
C3_Witness ==
    /\ session = "open"
    /\ lastSent.id # None
    /\ lastSent.id[1] > 1
    /\ lastSent.timestamp[1] > QUEUE_MESSAGE_EXPIRATION
    /\ out # <<>>
    /\ out[1][2] = lastSent.id[1]

\* The members of a RequestStartTransaction / RequestStopTransaction Call.
EvseOf(f) == f[4].evseId.num
RemoteStartOf(f) == f[4].remoteStartId.num
TransactionOf(f) == f[4].transactionId

\* Shapes of the Calls the station builds.
IsStatus(m, status) ==
    /\ m[1] = CALL
    /\ m[3] = "StatusNotification"
    /\ m[4].connectorStatus = status

IsEvent(m, tx, eventType, trigger) ==
    /\ m[1] = CALL
    /\ m[3] = "TransactionEvent"
    /\ m[4].eventType = eventType
    /\ m[4].triggerReason = trigger
    /\ m[4].transactionId = tx

\* The queue grew by exactly n frames at its tail.
Appended(n) ==
    /\ Len(queue') = Len(queue) + n
    /\ SubSeq(queue', 1, Len(queue)) = queue

\* The k-th of the n frames a turn appended.
New(n, k) == queue'[Len(queue') - n + k]

\* Exactly one Transaction record is new: it is keyed by an id never handed
\* out before and holds payload; the records there were are as they were.
OneNewTransaction(tx, payload) ==
    /\ tx > uuid
    /\ tx \notin DOMAIN transactions
    /\ tx \notin DOMAIN messages'
    /\ DOMAIN transactions' = DOMAIN transactions \cup {tx}
    /\ transactions'[tx] = payload
    /\ \A k \in DOMAIN transactions : transactions'[k] = transactions[k]

\* C4: a RequestStartTransaction for evseId e >= 1 whose connector (e-1, 0)
\* is Available is answered Accepted with its remoteStartId, leaves that same
\* connector (e-1, 0) Occupied, and adds exactly one Transaction record, keyed
\* by a fresh id and holding the request payload.
C4_StartOccupiesAddressed ==
    [][\A f \in StartCalls :
        (on_message(f, TRUE) /\ connectors[EvseOf(f) - 1] = "Available")
        => (/\ out' = <<request_start_transaction(f[2], RemoteStartOf(f),
                                                  "Accepted")>>
            /\ connectors'[EvseOf(f) - 1] = "Occupied"
            /\ \E tx \in DOMAIN transactions' : OneNewTransaction(tx, f[4]))
      ]_vars

\* C5 as claimed: an accepted RequestStartTransaction appends exactly three
\* messages to the tail of the queue, in the order TransactionEvent Started
\* (RemoteStart), TransactionEvent Updated (CablePluggedIn), StatusNotification
\* (Occupied), both events carrying the new transaction id.
C5_StartedUpdatedStatus ==
    [][\A f \in StartCalls :
        (on_message(f, TRUE) /\ connectors[EvseOf(f) - 1] = "Available")
        => (/\ Appended(3)
            /\ \E tx \in DOMAIN transactions' \ DOMAIN transactions :
                /\ IsEvent(New(3, 1), tx, "Started", "RemoteStart")
                /\ IsEvent(New(3, 2), tx, "Updated", "CablePluggedIn")
                /\ IsStatus(New(3, 3), "Occupied"))
      ]_vars

\* C5 as amended: an accepted RequestStartTransaction appends exactly three
\* messages to the tail of the queue, in the order StatusNotification
\* (Occupied), TransactionEvent Started (RemoteStart), TransactionEvent Updated
\* (CablePluggedIn), both events carrying the new transaction id.
C5_StatusStartedUpdated ==
    [][\A f \in StartCalls :
        (on_message(f, TRUE) /\ connectors[EvseOf(f) - 1] = "Available")
        => (/\ Appended(3)
            /\ \E tx \in DOMAIN transactions' \ DOMAIN transactions :
                /\ IsStatus(New(3, 1), "Occupied")
                /\ IsEvent(New(3, 2), tx, "Started", "RemoteStart")
                /\ IsEvent(New(3, 3), tx, "Updated", "CablePluggedIn"))
      ]_vars

\* C5 witness: the last turn accepted a start, and the three frames it
\* appended are the tail of a queue that held the BootNotification before.
C5_Witness ==
    /\ session = "open"
    /\ out # <<>>
    /\ out[1] = request_start_transaction(CsmsId, 7, "Accepted")
    /\ Len(queue) = 4
    /\ queue[1][3] = "BootNotification"
    /\ IsStatus(queue[2], "Occupied")
    /\ queue[4][4].transactionId \in DOMAIN transactions

\* C6: a RequestStartTransaction whose addressed connector is Occupied is
\* answered Rejected and changes nothing else: connector statuses,
\* Transaction records, PendingMessage records, the queue and LastSent stay.
C6_RejectedStart ==
    [][\A f \in StartCalls :
        (on_message(f, TRUE) /\ connectors[EvseOf(f) - 1] = "Occupied")
        => (/\ out' = <<request_start_transaction(f[2], RemoteStartOf(f),
                                                  "Rejected")>>
            /\ UNCHANGED <<connectors, transactions, messages, queue,
                           lastSent>>)
      ]_vars

\* C6 witness: the last turn rejected a start on a connector that an earlier,
\* accepted start had left Occupied.
C6_Witness ==
    /\ session = "open"
    /\ out = <<request_start_transaction(CsmsId, 7, "Rejected")>>
    /\ connectors[0] = "Occupied"
    /\ DOMAIN transactions # {}

\* C7: a RequestStopTransaction whose transactionId has no Transaction record
\* (never started, or already stopped) is answered Rejected and changes
\* nothing: connector statuses, Transaction records, PendingMessage records,
\* the queue and LastSent stay.
C7_RejectedStop ==
    [][\A f \in StopCalls :
        (on_message(f, TRUE) /\ TransactionOf(f) \notin DOMAIN transactions)
        => (/\ out' = <<request_stop_transaction(f[2], "Rejected")>>
            /\ UNCHANGED <<connectors, transactions, messages, queue,
                           lastSent>>)
      ]_vars

\* C7 witness: the last turn rejected a stop after the only transaction had
\* been started and stopped.
C7_Witness ==
    /\ session = "open"
    /\ out = <<request_stop_transaction(CsmsId, "Rejected")>>
    /\ DOMAIN transactions = {}
    /\ \E k \in DOMAIN messages :
          /\ messages[k][3] = "TransactionEvent"
          /\ messages[k][4].eventType = "Ended"

\* C8: a RequestStopTransaction whose transactionId has a Transaction record
\* is answered Accepted; exactly TransactionEvent Updated (RemoteStop), then
\* TransactionEvent Ended (RemoteStop, reason Remote), then StatusNotification
\* (Available) are appended to the queue; the record of that id is gone, so
\* that the same stop again would be rejected; and the connector, the one the
\* transaction was started on as well as connector (0, 0), is Available.
C8_AcceptedStop ==
    [][\A f \in StopCalls :
        LET tx == TransactionOf(f)
        IN  (on_message(f, TRUE) /\ tx \in DOMAIN transactions)
            => (/\ out' = <<request_stop_transaction(f[2], "Accepted")>>
                /\ Appended(3)
                /\ IsEvent(New(3, 1), tx, "Updated", "RemoteStop")
                /\ IsEvent(New(3, 2), tx, "Ended", "RemoteStop")
                /\ New(3, 2)[4].stoppedReason = Some("Remote")
                /\ IsStatus(New(3, 3), "Available")
                /\ tx \notin DOMAIN transactions'
                /\ DOMAIN transactions' = DOMAIN transactions \ {tx}
                /\ connectors'[0] = "Available"
                /\ connectors'[transactions[tx].evseId.num - 1] = "Available")
      ]_vars

\* C8 witness: the last turn accepted a stop: its three frames end the queue
\* and the transaction they name has no record any more.
C8_Witness ==
    /\ session = "open"
    /\ out = <<request_stop_transaction(CsmsId, "Accepted")>>
    /\ Len(queue) >= 3
    /\ IsStatus(queue[Len(queue)], "Available")
    /\ queue[Len(queue) - 1][3] = "TransactionEvent"
    /\ queue[Len(queue) - 1][4].transactionId \notin DOMAIN transactions

\* A CallResult that carries the id of the stored BootNotification Call and
\* the status Accepted.
IsBootAccept(f) ==
    /\ f[2] \in DOMAIN messages
    /\ messages[f[2]][3] = "BootNotification"
    /\ f[3].status = Str("Accepted")

\* C9: an Accepted CallResult for the BootNotification with interval n sets
\* the connector Available, enqueues one StatusNotification, stores the
\* heartbeat interval as n * 1000 ms and arms the heartbeat timer for it; and
\* every heartbeat timer firing enqueues exactly one Heartbeat Call, stored as
\* pending, and re-arms the heartbeat timer for the interval it was armed
\* with.
C9_BootAndHeartbeat ==
    [][/\ \A f \in CallResults :
            (on_message(f, TRUE) /\ IsBootAccept(f))
            => LET n == f[3].interval.num
               IN  /\ connectors'[0] = "Available"
                   /\ Appended(1)
                   /\ IsStatus(New(1, 1), "Available")
                   /\ HEARTBEAT_INTERVAL' = n * 1000
                   /\ timeouts' = Arm(timeouts, n * 1000, HEARTBEAT)
       /\ on_timeout_heartbeat(TRUE)
            => /\ Appended(1)
               /\ New(1, 1)[3] = "Heartbeat"
               /\ New(1, 1)[2] \notin DOMAIN messages
               /\ messages' = set_message(messages, New(1, 1)[2], New(1, 1))
               /\ \E tm \in Armed(HEARTBEAT) :
                    timeouts' = Arm(Disarm(timeouts, tm), tm.delay, HEARTBEAT)
      ]_vars

\* Processing any frame of the set leaves the session alive.
KeepsSession(frames) ==
    \A f \in frames : on_message(f, TRUE) => session' = "open"

\* C10: no inbound frame ends the program: an unparseable body, a
\* non-numeric typeId, a frame of the wrong arity, a RequestStartTransaction
\* without remoteStartId or evseId, a boot CallResult without interval and
\* every well-formed frame alike leave the session alive.
C10_FramesKeepSession ==
    [][/\ KeepsSession(MalformedFrames)
       /\ KeepsSession(BrokenStartCalls)
       /\ KeepsSession(BrokenCallResults)
       /\ KeepsSession(OtherFrames)
       /\ KeepsSession(OtherCalls)
       /\ KeepsSession(SetVariablesCalls)
       /\ KeepsSession(GetVariablesCalls)
       /\ KeepsSession(StartCalls)
       /\ KeepsSession(StopCalls)
       /\ KeepsSession(CallResults)
       /\ KeepsSession(CallErrors)
      ]_vars

\* The text of a member of a request item, "null" when it is absent.
TextOf(item, path) ==
    IF Len(path) = 1
    THEN to_string(Member(item, path[1]))
    ELSE to_string(Member(Member(item, path[1]), path[2]))

\* The attributeStatus the capability table's classes call for.
Classified(component, variable) ==
    CASE component = "AuthCtrlr" /\ variable = "AuthorizeRemoteStart" -> "Rejected"
      [] component = "AuthCtrlr" /\ variable # "AuthorizeRemoteStart" -> "UnknownVariable"
      [] component # "AuthCtrlr" -> "UnknownComponent"

\* C11: the reply to a SetVariables Call of k items is one CallResult of the
\* Call's id with exactly k result items in the order of the input, item i
\* carrying the component and the variable name of input i and the
\* attributeStatus Rejected for (AuthCtrlr, AuthorizeRemoteStart),
\* UnknownVariable for any other variable of AuthCtrlr and UnknownComponent
\* for any other component; connectors, transactions, the queue and LastSent
\* stay as they were.
C11_SetVariablesClassified ==
    [][\A f \in SetVariablesCalls :
        on_message(f, TRUE)
        => LET items == f[4].setVariableData.arr
           IN  /\ Len(out') = 1
               /\ out'[1][1] = CALLRESULT
               /\ out'[1][2] = f[2]
               /\ LET results == out'[1][3].setVariableResult
                  IN  /\ Len(results) = Len(items)
                      /\ \A i \in 1 .. Len(items) :
                          LET c == TextOf(items[i], <<"component">>)
                              v == TextOf(items[i], <<"variable", "name">>)
                          IN  /\ results[i].component = c
                              /\ results[i].variable.name = v
                              /\ results[i].attributeStatus = Classified(c, v)
               /\ UNCHANGED <<connectors, transactions, queue, lastSent>>
      ]_vars

\* C11 witness: the last turn answered a SetVariables Call of four items,
\* one of each class and one without a variable name, in the order they came.
C11_Witness ==
    /\ session = "open"
    /\ Len(out) = 1
    /\ out[1][1] = CALLRESULT
    /\ "setVariableResult" \in DOMAIN out[1][3]
    /\ Len(out[1][3].setVariableResult) = 4
    /\ out[1][3].setVariableResult[1].attributeStatus = "UnknownComponent"
    /\ out[1][3].setVariableResult[2].attributeStatus = "UnknownVariable"
    /\ out[1][3].setVariableResult[3].attributeStatus = "Rejected"
    /\ out[1][3].setVariableResult[4].variable.name = "null"

\* A turn that sends nothing and leaves the storage, the heartbeat interval
\* and the armed timers as they were.
Inert ==
    /\ out' = <<>>
    /\ UNCHANGED <<queue, lastSent, messages, transactions, connectors,
                   HEARTBEAT_INTERVAL, timeouts>>

\* C12: a CallResult whose id has no PendingMessage record, and a CallError
\* of any id, transmit nothing and leave the queue, LastSent, the
\* PendingMessage records, the Transaction records, the connector statuses,
\* the heartbeat interval and the armed timers unchanged: a turn that is not
\* inert is the processing of no such frame.
C12_InertResponses ==
    [][~Inert
       => /\ \A f \in CallResults \cup BrokenCallResults :
               f[2] \notin DOMAIN messages => ~on_message(f, TRUE)
          /\ \A f \in CallErrors : ~on_message(f, TRUE)
      ]_vars

\* C12 witness: a state an uncorrelated CallResult or a CallError leaves as
\* it found it: nothing sent in the turn, the heartbeat interval set and its
\* timer armed, a frame waiting in the queue behind a recorded transmission.
C12_Witness ==
    /\ session = "open"
    /\ out = <<>>
    /\ CsmsId \notin DOMAIN messages
    /\ HEARTBEAT_INTERVAL = 2000
    /\ Armed(HEARTBEAT) # {}
    /\ lastSent.id # None
    /\ queue # <<>>

\* The heartbeat interval changes in this step only by an Accepted CallResult
\* for the BootNotification.
WrittenByBootAccept ==
    HEARTBEAT_INTERVAL' # HEARTBEAT_INTERVAL
    => \E f \in CallResults : on_message(f, TRUE) /\ IsBootAccept(f)

\* C13: in one session the heartbeat interval is assigned at most once, and
\* only by an Accepted CallResult for the BootNotification: while the session
\* lives, no step but such a CallResult changes it, and once it is set no
\* step changes it at all, a repeated CallResult of the BootNotification's id
\* included.
C13_IntervalWrittenOnce ==
    [][session' = "open"
       => /\ WrittenByBootAccept
          /\ HEARTBEAT_INTERVAL # 0 => HEARTBEAT_INTERVAL' = HEARTBEAT_INTERVAL
      ]_vars

\* The Heartbeat Calls built so far.
Heartbeats(m) == {k \in DOMAIN m : m[k][3] = "Heartbeat"}

\* A CallResult that carries the id of the stored BootNotification Call and
\* a status other than Accepted.
IsBootRefusal(f) ==
    /\ f[2] \in DOMAIN messages
    /\ messages[f[2]][3] = "BootNotification"
    /\ f[3].status # Str("Accepted")

\* C14: nothing of the heartbeat precedes the acceptance of the
\* BootNotification: the first heartbeat timer is armed by an Accepted
\* CallResult for the BootNotification and by no other step, a heartbeat
\* timer fires only when one is armed, a Heartbeat Call is built and enqueued
\* only by such a firing; and a CallResult for the BootNotification with
\* another status arms no timer, sets no interval, changes no connector and
\* enqueues nothing.
C14_NoHeartbeatBeforeBoot ==
    [][/\ (Armed(HEARTBEAT) = {} /\ Armed(HEARTBEAT)' # {})
            => \E f \in CallResults : on_message(f, TRUE) /\ IsBootAccept(f)
       /\ Armed(HEARTBEAT) = {} => ~on_timeout_heartbeat(TRUE)
       /\ (Heartbeats(messages') # Heartbeats(messages) /\ session' = "open")
            => on_timeout_heartbeat(TRUE)
       /\ \A k \in 1 .. Len(queue') :
            (queue'[k][3] = "Heartbeat" /\ queue'[k][2] \notin DOMAIN messages)
            => on_timeout_heartbeat(TRUE)
       /\ \A f \in CallResults :
            (IsBootRefusal(f) /\ on_message(f, TRUE))
            => /\ timeouts' = timeouts
               /\ HEARTBEAT_INTERVAL' = HEARTBEAT_INTERVAL
               /\ connectors' = connectors
               /\ queue' = queue
      ]_vars

\* The state before any acceptance of the BootNotification: no heartbeat
\* timer armed, no interval set, no Heartbeat Call built.
NoHeartbeatYet ==
    /\ Armed(HEARTBEAT) = {}
    /\ HEARTBEAT_INTERVAL = 0
    /\ Heartbeats(messages) = {}

\* C14 witness: the BootNotification went out and a start was accepted, the
\* last turn sent nothing (as a refused BootNotification leaves it), and
\* there is still nothing of the heartbeat.
C14_Witness ==
    /\ session = "open"
    /\ out = <<>>
    /\ lastSent.id = Some(1)
    /\ DOMAIN transactions # {}
    /\ NoHeartbeatYet

\* The queue-fetch timer of the fixed period.
QueueFetchTimer == [token |-> QUEUE_FETCH, delay |-> QUEUE_FETCH_INTERVAL]

\* This step took an armed queue-fetch timer and armed one of the fixed
\* period in its place.
Rearmed ==
    \E tm \in Armed(QUEUE_FETCH) :
        timeouts' = Arm(Disarm(timeouts, tm), QUEUE_FETCH_INTERVAL, QUEUE_FETCH)

\* After this step, if the session lives, exactly one queue-fetch timer is
\* pending.
OneQueueFetchPending ==
    session' = "open"
    => /\ Armed(QUEUE_FETCH)' = {QueueFetchTimer}
       /\ CopiesIn(QueueFetchTimer, timeouts') = 1

\* C15 as claimed: every queue-fetch firing re-arms the queue-fetch timer at
\* 50 ms whatever the tick did, a failed transmission included, and from
\* on_open until the session ends exactly one queue-fetch timer is pending
\* after every turn.
C15_AlwaysRearmed ==
    [][/\ \A t \in Times, ok \in BOOLEAN :
            on_timeout_queue_fetch(t, ok) => Rearmed
       /\ OneQueueFetchPending
      ]_vars

\* C15 as amended: every queue-fetch firing whose commands the connection
\* takes re-arms the queue-fetch timer at 50 ms, whether the queue was
\* empty, the gate closed or a message transmitted; a firing whose
\* transmission fails arms nothing and ends the session; and from on_open
\* until the session ends exactly one queue-fetch timer is pending after
\* every turn.
C15_RearmedWhileAlive ==
    [][/\ \A t \in Times :
            /\ on_timeout_queue_fetch(t, TRUE) => Rearmed
            /\ on_timeout_queue_fetch(t, FALSE)
                => (session' # "open" /\ Armed(QUEUE_FETCH)' = {})
       /\ OneQueueFetchPending
      ]_vars

\* C15 witness: the last turn was a tick that transmitted a Call, a gate just
\* closed behind it with frames still waiting, and one queue-fetch timer is
\* pending again.
C15_Witness ==
    /\ session = "open"
    /\ Len(out) = 1
    /\ out[1][1] = CALL
    /\ lastSent.id = Some(out[1][2])
    /\ queue # <<>>
    /\ CopiesIn(QueueFetchTimer, timeouts) = 1

\* p is q or q with frames added at its tail.
IsPrefix(p, q) == Len(p) <= Len(q) /\ SubSeq(q, 1, Len(p)) = p

\* This step transmitted the head of the queue and took it off.
HeadTransmitted ==
    /\ queue # <<>>
    /\ out' = <<Head(queue)>>
    /\ queue' = Tail(queue)

\* The frames waiting after this step have ids in ascending order, each
\* drawn later than that of the last frame transmitted: none waits twice and
\* none that was transmitted waits again.
NoneWaitsAgain ==
    /\ \A i, j \in 1 .. Len(queue') : i < j => queue'[i][2] < queue'[j][2]
    /\ \A i \in 1 .. Len(queue') :
        lastSent'.id # None => lastSent'.id[1] < queue'[i][2]

\* C16: the frames transmitted from the queue are, in order, a prefix of the
\* frames enqueued: a step that transmits a Call transmits the head of the
\* queue and takes it off, every other step leaves the queue as it was or
\* adds at its tail, and no frame that was transmitted is waiting again,
\* whether or not a response to it ever came.
C16_StrictFifo ==
    [][session' = "open"
       => /\ (out' # <<>> /\ out'[1][1] = CALL) => HeadTransmitted
          /\ HeadTransmitted \/ IsPrefix(queue, queue')
          /\ NoneWaitsAgain
      ]_vars

\* C16 witness: the BootNotification was transmitted and never accepted;
\* the last turn, past the expiry of the window, transmitted the frame
\* enqueued second (the StatusNotification of an accepted start), and the
\* two frames enqueued after it still wait in order.
C16_Witness ==
    /\ session = "open"
    /\ Len(out) = 1
    /\ out[1][1] = CALL
    /\ out[1][3] = "StatusNotification"
    /\ lastSent.id = Some(out[1][2])
    /\ HEARTBEAT_INTERVAL = 0
    /\ Len(queue) = 2
    /\ queue[1][2] = out[1][2] + 1
    /\ queue[2][2] = out[1][2] + 2

\* Every connector whose status this step changed has the given status now.
ChangedTo(status) ==
    \A e \in DOMAIN connectors :
        connectors'[e] # connectors[e] => connectors'[e] = status

\* This step is one of the three accepting transitions, and the connectors
\* it changed went the way of that transition.
AcceptingTransition ==
    \/ /\ \E f \in CallResults : on_message(f, TRUE) /\ IsBootAccept(f)
       /\ ChangedTo("Available")
    \/ /\ \E f \in StartCalls :
            /\ on_message(f, TRUE)
            /\ connectors[EvseOf(f) - 1] = "Available"
       /\ ChangedTo("Occupied")
    \/ /\ \E f \in StopCalls :
            /\ on_message(f, TRUE)
            /\ TransactionOf(f) \in DOMAIN transactions
       /\ ChangedTo("Available")

\* This step is an event that is none of the three accepting transitions.
OtherEvent ==
    \/ \E f \in SetVariablesCalls \cup GetVariablesCalls : on_message(f, TRUE)
    \/ \E f \in OtherCalls : on_message(f, TRUE)
    \/ \E f \in StartCalls :
        connectors[EvseOf(f) - 1] # "Available" /\ on_message(f, TRUE)
    \/ \E f \in StopCalls :
        TransactionOf(f) \notin DOMAIN transactions /\ on_message(f, TRUE)
    \/ \E f \in CallResults : ~IsBootAccept(f) /\ on_message(f, TRUE)
    \/ \E f \in CallErrors : on_message(f, TRUE)
    \/ on_timeout_heartbeat(TRUE)
    \/ \E t \in Times : on_timeout_queue_fetch(t, TRUE)

\* C17: a connector's status changes only by an accepted BootNotification
\* response (to Available), an accepted RequestStartTransaction (to Occupied)
\* or an accepted RequestStopTransaction (to Available); SetVariables,
\* GetVariables, Calls of unknown action, rejected starts and stops, other
\* CallResults, CallErrors, heartbeat firings and queue-fetch ticks leave
\* every connector as it was; and a status is always Available or Occupied.
C17_ConnectorTransitions ==
    [][/\ connectors' # connectors
            => /\ AcceptingTransition
               /\ ~OtherEvent
       /\ \A e \in DOMAIN connectors' :
            connectors'[e] \in {"Available", "Occupied"}
      ]_vars

\* C17 witness: after a BootNotification acceptance and an accepted start, a
\* heartbeat firing (its Heartbeat is the newest frame waiting) found
\* connector 0 Occupied and left it so.
C17_Witness ==
    /\ session = "open"
    /\ queue # <<>>
    /\ queue[Len(queue)][3] = "Heartbeat"
    /\ queue[Len(queue)][2] = uuid
    /\ DOMAIN transactions # {}
    /\ connectors[0] = "Occupied"

\* The evse index of the connector a stored transaction was started on.
StartedOn(tx) == transactions[tx].evseId.num - 1

\* C18: in every state, the connector each Transaction record was started on
\* is Occupied, and no two Transaction records were started on the same
\* connector.
C18_ActiveMeansOccupied ==
    /\ \A tx \in DOMAIN transactions : connectors[StartedOn(tx)] = "Occupied"
    /\ \A tx1, tx2 \in DOMAIN transactions :
        StartedOn(tx1) = StartedOn(tx2) => tx1 = tx2

\* The number of heartbeat timers armed: all timers but the queue-fetch ones.
PendingHeartbeats ==
    BagCardinality(timeouts) - CopiesIn(QueueFetchTimer, timeouts)

\* C19: in every state at most one heartbeat timer is pending, whatever
\* frames came, more than one CallResult of the BootNotification's id
\* included.
C19_OneHeartbeatChain == PendingHeartbeats <= 1

\* The ids of the frames waiting in the queue.
Waiting == {queue[i][2] : i \in 1 .. Len(queue)}

\* The last turn transmitted the frame of id k from the queue.
Transmitted(k) ==
    /\ Len(out) = 1
    /\ out[1][1] = CALL
    /\ out[1][2] = k

\* C20: with the queue-fetch timer firing on and the clock advancing, in a
\* session that is not ended and whose sends succeed, every frame that waits
\* in the queue is transmitted in the end, whether or not a response to a
\* frame sent before it ever comes.
C20_EventuallyTransmitted ==
    \A k \in 1 .. MaxUuid :
        (session = "open" /\ k \in Waiting)
        ~> (Transmitted(k) \/ session # "open")

\* C20 witness: the newest frame built, enqueued behind others while no
\* BootNotification response had been accepted, has just been transmitted
\* and the queue is empty.
C20_Witness ==
    /\ session = "open"
    /\ Transmitted(uuid)
    /\ uuid >= 5
    /\ queue = <<>>
    /\ HEARTBEAT_INTERVAL = 0

\* The Calls the station answers with a CallResult.
AnsweredCalls ==
    SetVariablesCalls \cup GetVariablesCalls \cup StartCalls \cup StopCalls

\* This step sent exactly one frame, the CallResult of the given id.
RepliedTo(id) ==
    /\ Len(out') = 1
    /\ out'[1][1] = CALLRESULT
    /\ out'[1][2] = id

\* After this step no CallResult waits in the queue and none is stored as
\* pending.
NoReplyKept ==
    /\ \A i \in 1 .. Len(queue') : queue'[i][1] = CALL
    /\ \A k \in DOMAIN messages' : messages'[k][1] = CALL

\* This step answered the Call directly: its CallResult went out, nothing left
\* the queue (what the handler enqueued waits behind what waited before), no
\* CallResult is kept, and LastSent is as it was.
AnsweredDirectly(f) ==
    /\ RepliedTo(f[2])
    /\ IsPrefix(queue, queue')
    /\ NoReplyKept
    /\ lastSent' = lastSent

\* C21: a SetVariables, GetVariables, RequestStartTransaction or
\* RequestStopTransaction Call that is handled is answered in its own turn
\* by exactly one CallResult of the Call's id, sent directly: nothing leaves
\* the queue in that turn, so what the handler enqueued still waits behind
\* what waited before; the CallResult is neither enqueued nor stored as
\* pending; LastSent is as it was; and all this whether the gate of the
\* queue is open or closed.  Stated on the states: in none of them can the
\* handling of such a Call take a step that is not such an answer.
C21_RepliesBypassQueue ==
    \A f \in AnsweredCalls :
        ~ ENABLED (on_message(f, TRUE) /\ ~AnsweredDirectly(f))

\* C21 witness: with the gate closed (a transmission recorded, frames still
\* waiting), the last turn accepted a stop: its CallResult went out at once
\* while the three frames it enqueued wait with the others.
C21_Witness ==
    /\ session = "open"
    /\ out = <<request_stop_transaction(CsmsId, "Accepted")>>
    /\ lastSent.id # None
    /\ Len(queue) > 3
    /\ \A i \in 1 .. Len(queue) : queue[i][1] = CALL
    /\ \A k \in DOMAIN messages : messages[k][1] = CALL
====
